---- MODULE Spec2Model ----
(***************************************************************************)
(* Model of cfg/config_files.go: bootstrap of the configuration directory  *)
(* and file, and migration of the legacy directory ~/.wtf to ~/.config/wtf.*)
(*                                                                         *)
(* A path is a sequence of one-character strings.  Every file or directory *)
(* name is abbreviated to one character:                                   *)
(*    "h" the user's home       "c" .config      "w" wtf (under .config)   *)
(*    "l" .wtf (legacy)         "y" config.yml   "s" settings.txt          *)
(*    "d" a sub-directory                                                  *)
(* File contents are sequences too, so that Size is the length.            *)
(***************************************************************************)
EXTENDS Naturals, Sequences, FiniteSets, TLC

VARIABLES
    fs,        \* the filesystem below the home directory: path -> node
    usr,       \* what user.Current() returns (fixed during a behaviour)
    pc,        \* position of the running call, or how the last call ended
    op,        \* the entry point of the current call
    calls,     \* number of calls started so far
    steps,     \* the steps of Initialize entered by the current call, in order
    out,       \* what the current call has printed on the report sink
    exitCode,  \* exit status of the process of the current call
    ret,       \* what the last CreateFile call returned
    fs0,       \* the filesystem when the current call started
    orig,      \* the filesystem of the initial state
    clean,     \* no operation so far failed for a reason outside the model
    crashes,   \* how many calls were stopped from outside between two steps
    pre,       \* the filesystem when the step last entered began
    lastErr,   \* the operation the last step ended with, and its error
    stoppedInMigration, \* a stop fell between the start of the copy and the
               \* end of the removal of the legacy tree
    osPath,    \* the path the last createXdgConfigDir or createWtfConfigDir of
               \* the current call handed to os.Stat and os.Mkdir
    prev,      \* the call before the current one was an Initialize, and it
               \* returned
    arg,       \* the argument of a call of expandHomeDir on its own
    resolved   \* what that call returned

vars == <<fs, usr, pc, op, calls, steps, out, exitCode, ret, fs0, orig, clean, crashes,
          pre, lastErr, stoppedInMigration, osPath, prev, arg, resolved>>

(* ------------------------------ bounds ------------------------------- *)

\* number of calls (Initialize, CreateFile, createWtfConfigFile) in a behaviour
MaxCalls == 2

\* length of the paths handed to expandHomeDir on its own
MaxPathLen == 3

(* ----------------------------- constants ----------------------------- *)

XdgConfigDir == <<"~", "/", "c", "/">>
WtfConfigDirV1 == <<"~", "/", "l", "/">>
WtfConfigDirV2 == <<"~", "/", "c", "/", "w", "/">>

ConfigYml == <<"y">>
defaultConfigFile == <<"D">>
UserContent == <<"u">>

(* ------------------------------- paths ------------------------------- *)

HomeDir == <<"/", "h">>

\* the relative paths of the entries a configuration directory may hold
Entries == { <<"/", "y">>, <<"/", "s">>, <<"/", "d">>, <<"/", "d", "/", "s">> }

XdgPath == HomeDir \o <<"/", "c">>
WtfPath == XdgPath \o <<"/", "w">>
LegacyPath == HomeDir \o <<"/", "l">>
ConfigFilePath == WtfPath \o <<"/", "y">>

Roots == {XdgPath, WtfPath, LegacyPath}
Paths == Roots \cup { WtfPath \o e : e \in Entries } \cup { LegacyPath \o e : e \in Entries }

Parent(p) == SubSeq(p, 1, Len(p) - 2)
Base(p) == p[Len(p)]

IsPrefix(p, q) == Len(p) <= Len(q) /\ SubSeq(q, 1, Len(p)) = p
\* q lies in the tree rooted at p (p itself included)
Under(p, q) == IsPrefix(p, q) /\ (Len(q) = Len(p) \/ q[Len(p) + 1] = "/")
\* the path q of the tree rooted at src, moved to the tree rooted at dst
Rebase(src, dst, q) == dst \o SubSeq(q, Len(src) + 1, Len(q))

(* ------------------------------- nodes ------------------------------- *)

Absent == [t |-> "absent", c |-> <<>>]
Dir == [t |-> "dir", c |-> <<>>]
File(c) == [t |-> "file", c |-> c]

Contents == { <<>>, defaultConfigFile, UserContent }

\* the kinds of node the model places at each path
NodesAt(p) ==
    IF p \in Roots THEN {Absent, Dir, File(UserContent)}
    ELSE IF Base(p) = "d" THEN {Absent, Dir}
    ELSE IF Base(p) = "y" THEN {Absent} \cup { File(c) : c \in Contents }
    ELSE {Absent, File(UserContent)}

IsDirAt(f, p) == p = HomeDir \/ (p \in Paths /\ f[p].t = "dir")
Present(f, p) == p \in Paths /\ f[p].t # "absent"

\* a filesystem is a tree: whatever exists lies in a directory
WellFormed(f) == \A p \in Paths : f[p].t # "absent" => IsDirAt(f, Parent(p))

Tree(f, p) == { q \in Paths : Under(p, q) /\ f[q].t # "absent" }

(* -------------------------- path resolution -------------------------- *)

UserStates ==
    { [ok |-> TRUE, HomeDir |-> HomeDir],
      [ok |-> TRUE, HomeDir |-> <<>>],
      [ok |-> FALSE, HomeDir |-> <<>>] }

\* user.Current() and the check of its HomeDir
home(u) ==
    IF ~u.ok THEN [dir |-> <<>>, err |-> "HomeDirUnavailable"]
    ELSE IF u.HomeDir = <<>> THEN [dir |-> <<>>, err |-> "HomeDirUnavailable"]
    ELSE [dir |-> u.HomeDir, err |-> "nil"]

\* filepath.Clean on paths without "." and ".." elements: runs of
\* separators collapse to one and a trailing separator is dropped
RECURSIVE Squeeze(_)
Squeeze(p) ==
    IF Len(p) <= 1 THEN p
    ELSE IF p[1] = "/" /\ p[2] = "/" THEN Squeeze(Tail(p))
    ELSE <<p[1]>> \o Squeeze(Tail(p))

Clean(p) ==
    LET q == Squeeze(p) IN
    IF q = <<>> THEN <<".">>
    ELSE IF Len(q) > 1 /\ q[Len(q)] = "/" THEN SubSeq(q, 1, Len(q) - 1)
    ELSE q

\* variant: the two are put one after the other, nothing is cleaned
Join_concat(a, b) == a \o b

\* filepath.Join(a, b): the non-empty elements joined by "/", then cleaned
Join(a, b) ==
    IF a = <<>> /\ b = <<>> THEN <<>>
    ELSE IF a = <<>> THEN Clean(b)
    ELSE IF b = <<>> THEN Clean(a)
    ELSE Clean(a \o <<"/">> \o b)

\* variant: what follows the marker is not looked at
expandHomeDir_anyAfterMarker(path, u) ==
    IF Len(path) = 0 THEN [path |-> path, err |-> "nil"]
    ELSE IF path[1] # "~" THEN [path |-> path, err |-> "nil"]
    ELSE LET h == home(u) IN
         IF h.err # "nil" THEN [path |-> <<>>, err |-> h.err]
         ELSE [path |-> Join(h.dir, Tail(path)), err |-> "nil"]

expandHomeDir(path, u) ==
    IF Len(path) = 0 THEN [path |-> path, err |-> "nil"]
    ELSE IF path[1] # "~" THEN [path |-> path, err |-> "nil"]
    ELSE IF Len(path) > 1 /\ path[2] # "/" /\ path[2] # "\\"
         THEN [path |-> <<>>, err |-> "MalformedPath"]
    ELSE LET h == home(u) IN
         IF h.err # "nil" THEN [path |-> <<>>, err |-> h.err]
         ELSE [path |-> Join(h.dir, Tail(path)), err |-> "nil"]

WtfConfigDir(u) ==
    LET r == expandHomeDir(WtfConfigDirV2, u) IN
    IF r.err # "nil" THEN [path |-> <<>>, err |-> r.err]
    ELSE [path |-> r.path, err |-> "nil"]

(* ---------------------- filesystem primitives ------------------------ *)
(* Each primitive that changes the filesystem yields the set of outcomes  *)
(* [fs, err] the operating system may produce: besides the failures the   *)
(* filesystem state forces, a change may fail for a reason outside the    *)
(* model (a full disk, a read-only mount), reported as "EIO".             *)

IsNotExist(err) == err = "ENOENT"

ProperAncestors(p) == { q \in Paths : Under(q, p) /\ q # p }

\* os.Stat: path lookup stops at the first component that is missing
\* (ENOENT) or is not a directory (ENOTDIR).  Its result is a function of
\* the tree: access rights and transient errors are not modelled.
Stat(f, p) ==
    IF p \notin Paths THEN [err |-> "ENOENT", size |-> 0]
    ELSE LET bad == { q \in ProperAncestors(p) : f[q].t # "dir" } IN
         IF bad # {}
         THEN LET q == CHOOSE x \in bad : \A r \in bad : Len(x) <= Len(r) IN
              [err |-> IF f[q].t = "absent" THEN "ENOENT" ELSE "ENOTDIR", size |-> 0]
         ELSE IF f[p].t = "absent" THEN [err |-> "ENOENT", size |-> 0]
         ELSE [err |-> "nil",
               size |-> IF f[p].t = "file" THEN Len(f[p].c) ELSE Len(<<"d">>)]

\* os.Mkdir: not recursive
Mkdir(f, p) ==
    IF p \in Paths /\ IsDirAt(f, Parent(p)) /\ f[p].t = "absent"
    THEN { [fs |-> [f EXCEPT ![p] = Dir], err |-> "nil"], [fs |-> f, err |-> "EIO"] }
    ELSE { [fs |-> f, err |-> IF Present(f, p) THEN "EEXIST" ELSE Stat(f, p).err] }

\* os.Create: creates the file or truncates it
Create(f, p) ==
    IF p \in Paths /\ IsDirAt(f, Parent(p)) /\ f[p].t # "dir"
    THEN { [fs |-> [f EXCEPT ![p] = File(<<>>)], err |-> "nil"], [fs |-> f, err |-> "EIO"] }
    ELSE { [fs |-> f, err |-> IF Present(f, p) THEN "EISDIR" ELSE Stat(f, p).err] }

\* ioutil.WriteFile: opens with O_CREATE|O_TRUNC, then writes; a failed
\* write leaves the file truncated
WriteFile(f, p, data) ==
    IF p \in Paths /\ IsDirAt(f, Parent(p)) /\ f[p].t # "dir"
    THEN { [fs |-> [f EXCEPT ![p] = File(data)], err |-> "nil"],
           [fs |-> [f EXCEPT ![p] = File(<<>>)], err |-> "EIO"],
           [fs |-> f, err |-> "EIO"] }
    ELSE { [fs |-> f, err |-> IF Present(f, p) THEN "EISDIR" ELSE Stat(f, p).err] }

\* the sets of paths that, together with what they need, form a tree
Closed(S, T) == \A q \in S : Parent(q) \in T => Parent(q) \in S

\* os.RemoveAll: removes the tree at p; on failure p itself and some
\* part of the tree are left
RemoveAll(f, p) ==
    IF ~Present(f, p) THEN { [fs |-> f, err |-> "nil"] }
    ELSE LET T == Tree(f, p)
             Keep(S) == [q \in Paths |-> IF q \in T /\ q \notin S THEN Absent ELSE f[q]]
         IN { [fs |-> Keep({}), err |-> "nil"] }
            \cup { [fs |-> Keep(S), err |-> "EIO"] : S \in { S \in SUBSET T : p \in S /\ Closed(S, T) } }

(* --------------------------- recursive copy -------------------------- *)

\* Copy(src, dst): a regular file is copied whole or not at all; a
\* directory is created at dst (with the directories leading to it) and
\* every entry below it is copied to the same relative path.  A failure
\* leaves a part of the destination tree behind.
Copy(f, src, dst) ==
    IF Stat(f, src).err # "nil" THEN { [fs |-> f, err |-> Stat(f, src).err] }
    ELSE IF dst \notin Paths THEN { [fs |-> f, err |-> "ENOENT"] }
    ELSE IF \E q \in ProperAncestors(dst) : f[q].t = "file"
         THEN { [fs |-> f, err |-> "ENOTDIR"] }
    ELSE IF \E q \in Tree(f, src) :
               LET d == Rebase(src, dst, q) IN Present(f, d) /\ f[d].t # f[q].t
         THEN { [fs |-> f, err |-> "EEXIST"] }
    ELSE LET made == { q \in ProperAncestors(dst) : f[q].t = "absent" }
             new == made \cup { Rebase(src, dst, q) : q \in Tree(f, src) }
             Put(S) == [q \in Paths |->
                          IF q \notin S THEN f[q]
                          ELSE IF q \in made THEN Dir
                          ELSE f[Rebase(dst, src, q)]]
         IN { [fs |-> Put(new), err |-> "nil"] }
            \cup { [fs |-> Put(S), err |-> "EIO"] :
                      S \in { S \in SUBSET new : S # new /\ Closed(S, new) } }

(* ------------------------------ CreateFile --------------------------- *)

\* variant: the file is created without looking whether it exists
CreateFile_noStat(f, u, fileName) ==
    LET configDir == WtfConfigDir(u) IN
    IF configDir.err # "nil" THEN { [fs |-> f, path |-> <<>>, err |-> configDir.err] }
    ELSE LET filePath == configDir.path \o <<"/">> \o fileName IN
         { IF r.err # "nil"
           THEN [fs |-> r.fs, path |-> <<>>, err |-> r.err]
           ELSE [fs |-> r.fs, path |-> filePath, err |-> "nil"] :
              r \in Create(f, filePath) }

\* the outcomes [fs, path, err] of CreateFile(fileName)
CreateFile(f, u, fileName) ==
    LET configDir == WtfConfigDir(u) IN
    IF configDir.err # "nil" THEN { [fs |-> f, path |-> <<>>, err |-> configDir.err] }
    ELSE LET filePath == configDir.path \o <<"/">> \o fileName
             st == Stat(f, filePath) IN
         IF st.err # "nil"
         THEN IF IsNotExist(st.err)
              THEN { IF r.err # "nil"
                     THEN [fs |-> r.fs, path |-> <<>>, err |-> r.err]
                     ELSE [fs |-> r.fs, path |-> filePath, err |-> "nil"] :
                        r \in Create(f, filePath) }
              ELSE { [fs |-> f, path |-> <<>>, err |-> st.err] }
         ELSE { [fs |-> f, path |-> filePath, err |-> "nil"] }

(* ------------------------ the steps of Initialize -------------------- *)
(* Each step yields the set of its outcomes                               *)
(*   [fs   the filesystem it leaves,                                     *)
(*    next "return", or where the process is after it,                   *)
(*    out  what it printed,                                              *)
(*    call the operation it ended with ("none": it had nothing to do),   *)
(*    err  the error of that operation]                                  *)

Outcome(f, next, printed, call, err) ==
    [fs |-> f, next |-> next, out |-> printed, call |-> call, err |-> err]

Done(f) == Outcome(f, "return", {}, "none", "nil")

\* variant: the check of the new directory is left out
migrateOldConfig_noDestCheck(f, u) ==
    LET srcDir == expandHomeDir(WtfConfigDirV1, u).path
        destDir == expandHomeDir(WtfConfigDirV2, u).path
    IN IF IsNotExist(Stat(f, srcDir).err) THEN { Done(f) }
       ELSE { Outcome(r.fs, IF r.err # "nil" THEN "panicked" ELSE "migrateOldConfig_cleanup",
                      {}, "Copy", r.err) : r \in Copy(f, srcDir, destDir) }

\* variant: the check of the new directory repeats the one of the old
\* directory, and returns when the new directory is missing
migrateOldConfig_destCheckInverted(f, u) ==
    LET srcDir == expandHomeDir(WtfConfigDirV1, u).path
        destDir == expandHomeDir(WtfConfigDirV2, u).path
    IN IF IsNotExist(Stat(f, srcDir).err) THEN { Done(f) }
       ELSE IF IsNotExist(Stat(f, destDir).err) THEN { Done(f) }
       ELSE { Outcome(r.fs, IF r.err # "nil" THEN "panicked" ELSE "migrateOldConfig_cleanup",
                      {}, "Copy", r.err) : r \in Copy(f, srcDir, destDir) }

\* variant: the error of the copy is dropped
migrateOldConfig_ignoreCopyErr(f, u) ==
    LET srcDir == expandHomeDir(WtfConfigDirV1, u).path
        destDir == expandHomeDir(WtfConfigDirV2, u).path
    IN IF IsNotExist(Stat(f, srcDir).err) THEN { Done(f) }
       ELSE IF Stat(f, destDir).err = "nil" THEN { Done(f) }
       ELSE { Outcome(r.fs, "migrateOldConfig_cleanup", {}, "Copy", r.err) :
                 r \in Copy(f, srcDir, destDir) }

\* variant: with the new directory found, the legacy one is still removed
migrateOldConfig_removeOnSkip(f, u) ==
    LET srcDir == expandHomeDir(WtfConfigDirV1, u).path
        destDir == expandHomeDir(WtfConfigDirV2, u).path
    IN IF IsNotExist(Stat(f, srcDir).err) THEN { Done(f) }
       ELSE IF Stat(f, destDir).err = "nil"
            THEN { Outcome(f, "migrateOldConfig_cleanup", {}, "none", "nil") }
       ELSE { Outcome(r.fs, IF r.err # "nil" THEN "panicked" ELSE "migrateOldConfig_cleanup",
                      {}, "Copy", r.err) : r \in Copy(f, srcDir, destDir) }

\* migrateOldConfig up to and including the copy
migrateOldConfig(f, u) ==
    LET srcDir == expandHomeDir(WtfConfigDirV1, u).path
        destDir == expandHomeDir(WtfConfigDirV2, u).path
    IN IF IsNotExist(Stat(f, srcDir).err) THEN { Done(f) }
       ELSE IF Stat(f, destDir).err = "nil" THEN { Done(f) }
       ELSE { Outcome(r.fs, IF r.err # "nil" THEN "panicked" ELSE "migrateOldConfig_cleanup",
                      {}, "Copy", r.err) : r \in Copy(f, srcDir, destDir) }

\* variant: a failed removal is not printed
migrateOldConfig_cleanup_silent(f, u) ==
    LET srcDir == expandHomeDir(WtfConfigDirV1, u).path
        destDir == expandHomeDir(WtfConfigDirV2, u).path
    IN IF Stat(f, destDir).err = "nil"
       THEN { Outcome(r.fs, "return", {}, "RemoveAll", r.err) : r \in RemoveAll(f, srcDir) }
       ELSE { Done(f) }

\* variant: a failed removal panics, as a failed copy does
migrateOldConfig_cleanup_fatal(f, u) ==
    LET srcDir == expandHomeDir(WtfConfigDirV1, u).path
        destDir == expandHomeDir(WtfConfigDirV2, u).path
    IN IF Stat(f, destDir).err = "nil"
       THEN { Outcome(r.fs, IF r.err # "nil" THEN "panicked" ELSE "return", {},
                      "RemoveAll", r.err) : r \in RemoveAll(f, srcDir) }
       ELSE { Done(f) }

\* migrateOldConfig after the copy: the removal of the old directory
migrateOldConfig_cleanup(f, u) ==
    LET srcDir == expandHomeDir(WtfConfigDirV1, u).path
        destDir == expandHomeDir(WtfConfigDirV2, u).path
    IN IF Stat(f, destDir).err = "nil"
       THEN { Outcome(r.fs, "return", IF r.err # "nil" THEN {"RemoveAllError"} ELSE {},
                      "RemoveAll", r.err) : r \in RemoveAll(f, srcDir) }
       ELSE { Done(f) }

\* xdgConfigDir, _ := expandHomeDir(XdgConfigDir): the error is dropped
xdgConfigDirOf(u) == expandHomeDir(XdgConfigDir, u).path

\* wtfConfigDir, _ := WtfConfigDir(): the error is dropped
wtfConfigDirOf(u) == WtfConfigDir(u).path

\* variant: the directory is created without looking whether it exists
createXdgConfigDir_noCheck(f, u) ==
    LET xdgConfigDir == xdgConfigDirOf(u) IN
    { IF r.err # "nil"
      THEN Outcome(r.fs, "exited", {"XdgConfigDirCreateError"}, "Mkdir", r.err)
      ELSE Outcome(r.fs, "return", {}, "Mkdir", "nil") : r \in Mkdir(f, xdgConfigDir) }

\* variant: what is found at the path has to be a directory
createXdgConfigDir_dirWanted(f, u) ==
    LET xdgConfigDir == xdgConfigDirOf(u) IN
    IF IsNotExist(Stat(f, xdgConfigDir).err)
    THEN { IF r.err # "nil"
           THEN Outcome(r.fs, "exited", {"XdgConfigDirCreateError"}, "Mkdir", r.err)
           ELSE Outcome(r.fs, "return", {}, "Mkdir", "nil") : r \in Mkdir(f, xdgConfigDir) }
    ELSE IF Stat(f, xdgConfigDir).err = "nil" /\ ~IsDirAt(f, xdgConfigDir)
    THEN { Outcome(f, "exited", {"XdgConfigDirCreateError"}, "Stat", "ENOTDIR") }
    ELSE { Done(f) }

createXdgConfigDir(f, u) ==
    LET xdgConfigDir == xdgConfigDirOf(u) IN
    IF IsNotExist(Stat(f, xdgConfigDir).err)
    THEN { IF r.err # "nil"
           THEN Outcome(r.fs, "exited", {"XdgConfigDirCreateError"}, "Mkdir", r.err)
           ELSE Outcome(r.fs, "return", {}, "Mkdir", "nil") : r \in Mkdir(f, xdgConfigDir) }
    ELSE { Done(f) }

\* variant: a failed Mkdir is not noticed
createWtfConfigDir_ignoreErr(f, u) ==
    LET wtfConfigDir == wtfConfigDirOf(u) IN
    IF IsNotExist(Stat(f, wtfConfigDir).err)
    THEN { Outcome(r.fs, "return", {}, "Mkdir", r.err) : r \in Mkdir(f, wtfConfigDir) }
    ELSE { Done(f) }

\* variant: the directory is created without looking whether it exists
createWtfConfigDir_noCheck(f, u) ==
    LET wtfConfigDir == wtfConfigDirOf(u) IN
    { IF r.err # "nil"
      THEN Outcome(r.fs, "exited", {"WtfConfigDirCreateError"}, "Mkdir", r.err)
      ELSE Outcome(r.fs, "return", {}, "Mkdir", "nil") : r \in Mkdir(f, wtfConfigDir) }

createWtfConfigDir(f, u) ==
    LET wtfConfigDir == wtfConfigDirOf(u) IN
    IF IsNotExist(Stat(f, wtfConfigDir).err)
    THEN { IF r.err # "nil"
           THEN Outcome(r.fs, "exited", {"WtfConfigDirCreateError"}, "Mkdir", r.err)
           ELSE Outcome(r.fs, "return", {}, "Mkdir", "nil") : r \in Mkdir(f, wtfConfigDir) }
    ELSE { Done(f) }

\* createWtfConfigFile up to the return of CreateFile; path is filePath
createWtfConfigFile(f, u) ==
    { [fs |-> r.fs, next |-> IF r.err # "nil" THEN "panicked" ELSE "createWtfConfigFile_seed",
       out |-> {}, call |-> "CreateFile", err |-> r.err, path |-> r.path] :
         r \in CreateFile(f, u, ConfigYml) }

\* variant: the file is seeded whatever its size
NeedsSeed_always(size) == TRUE

\* variant: no file is taken for empty
NeedsSeed_never(size) == FALSE

\* the file is seeded when it is empty
NeedsSeed(size) == size = 0

\* variant: a failed WriteFile is not noticed
createWtfConfigFile_seed_ignoreWriteErr(f, filePath) ==
    LET file == Stat(f, filePath) IN
    IF file.err # "nil" THEN { Outcome(f, "panicked", {}, "Stat", file.err) }
    ELSE IF file.size = 0
    THEN { Outcome(r.fs, "return", {}, "WriteFile", r.err) :
              r \in WriteFile(f, filePath, defaultConfigFile) }
    ELSE { Done(f) }

\* createWtfConfigFile after CreateFile: file.Size() on the nil FileInfo
\* of a failed Stat is a nil dereference, a panic
createWtfConfigFile_seed(f, filePath) ==
    LET file == Stat(f, filePath) IN
    IF file.err # "nil" THEN { Outcome(f, "panicked", {}, "Stat", file.err) }
    ELSE IF NeedsSeed(file.size)
    THEN { Outcome(r.fs, IF r.err # "nil" THEN "panicked" ELSE "return", {}, "WriteFile", r.err) :
              r \in WriteFile(f, filePath, defaultConfigFile) }
    ELSE { Done(f) }

\* variant: the two directories are provisioned in the other order
InitializeNext_swapped(step) ==
    CASE step = "migrateOldConfig" -> "createWtfConfigDir"
      [] step = "createWtfConfigDir" -> "createXdgConfigDir"
      [] step = "createXdgConfigDir" -> "createWtfConfigFile"
      [] step = "createWtfConfigFile" -> "returned"

\* Initialize: the step that follows the return of a step
InitializeNext(step) ==
    CASE step = "migrateOldConfig" -> "createXdgConfigDir"
      [] step = "createXdgConfigDir" -> "createWtfConfigDir"
      [] step = "createWtfConfigDir" -> "createWtfConfigFile"
      [] step = "createWtfConfigFile" -> "returned"

\* where the process is after an outcome of step
After(o, step, next) ==
    IF next = "return" THEN (IF o = "Initialize" THEN InitializeNext(step) ELSE "returned")
    ELSE next

\* os.Exit(1) ends the process with status 1, a panic with status 2
ExitStatus(p) == IF p = "exited" THEN 1 ELSE IF p = "panicked" THEN 2 ELSE 0

(* ------------------------------- actions ----------------------------- *)

Ended == {"idle", "returned", "exited", "panicked", "crashed"}
Running == {"migrateOldConfig", "migrateOldConfig_cleanup", "createXdgConfigDir",
            "createWtfConfigDir", "createWtfConfigFile", "createWtfConfigFile_seed"}

FileNames == { <<"y">>, <<"s">> }

\* the trees a configuration directory at root may be
Subtrees(root) ==
    LET P == { root \o e : e \in Entries }
        At(r, y, s, d, ds) ==
            [p \in {root} \cup P |->
                IF p = root THEN r
                ELSE IF p = root \o <<"/", "y">> THEN y
                ELSE IF p = root \o <<"/", "s">> THEN s
                ELSE IF p = root \o <<"/", "d">> THEN d
                ELSE ds]
    IN { At(r, y, s, d, ds) :
            r \in NodesAt(root), y \in NodesAt(root \o <<"/", "y">>),
            s \in NodesAt(root \o <<"/", "s">>), d \in NodesAt(root \o <<"/", "d">>),
            ds \in NodesAt(root \o <<"/", "d", "/", "s">>) }

\* every filesystem below the home directory, within the kinds of NodesAt
FileSystems ==
    { f \in { [p \in Paths |-> IF p = XdgPath THEN x
                                ELSE IF Under(WtfPath, p) THEN w[p] ELSE l[p]] :
                 x \in NodesAt(XdgPath), w \in Subtrees(WtfPath), l \in Subtrees(LegacyPath) } :
        WellFormed(f) }

\* no directory step of the current call has run yet
NoPath == <<"none">>

\* expandHomeDir has not been called on its own
NotResolved == [path |-> <<>>, err |-> "none"]

Init ==
    /\ fs \in FileSystems
    /\ usr \in UserStates
    /\ pc = "idle"
    /\ op = "none"
    /\ calls = 0
    /\ steps = <<>>
    /\ out = {}
    /\ exitCode = 0
    /\ ret = [fileName |-> <<>>, path |-> <<>>, err |-> "nil"]
    /\ fs0 = fs
    /\ orig = fs
    /\ clean = TRUE
    /\ crashes = 0
    /\ pre = fs
    /\ lastErr = <<"none", "nil">>
    /\ stoppedInMigration = FALSE
    /\ osPath = NoPath
    /\ prev = FALSE
    /\ arg = <<>>
    /\ resolved = NotResolved

\* a call of the entry point o begins, in a new process or after the last call
Begin(o, first) ==
    /\ pc' = first
    /\ op' = o
    /\ calls' = calls + 1
    /\ steps' = <<>>
    /\ out' = {}
    /\ exitCode' = 0
    /\ fs0' = fs
    /\ pre' = fs
    /\ lastErr' = <<"none", "nil">>
    /\ osPath' = NoPath
    /\ prev' = (op = "Initialize" /\ pc = "returned")
    /\ UNCHANGED <<fs, usr, ret, orig, clean, crashes, stoppedInMigration, arg, resolved>>

\* the outcome r of a step takes effect
Take(step, r, entered) ==
    /\ fs' = r.fs
    /\ pc' = After(op, step, r.next)
    /\ out' = out \cup r.out
    /\ exitCode' = ExitStatus(r.next)
    /\ clean' = (clean /\ r.err # "EIO")
    /\ lastErr' = <<r.call, r.err>>
    /\ steps' = IF entered THEN Append(steps, step) ELSE steps
    /\ pre' = IF entered THEN fs ELSE pre
    /\ UNCHANGED <<usr, op, calls, fs0, orig, crashes, stoppedInMigration, prev, arg,
                   resolved>>

StartInitialize ==
    /\ pc \in Ended
    /\ calls < MaxCalls
    /\ Begin("Initialize", "migrateOldConfig")

StartCreateWtfConfigFile ==
    /\ pc \in Ended
    /\ calls < MaxCalls
    /\ Begin("createWtfConfigFile", "createWtfConfigFile")

MigrateOldConfig ==
    /\ pc = "migrateOldConfig"
    /\ \E r \in migrateOldConfig(fs, usr) : Take("migrateOldConfig", r, TRUE)
    /\ UNCHANGED <<ret, osPath>>

MigrateOldConfigCleanup ==
    /\ pc = "migrateOldConfig_cleanup"
    /\ \E r \in migrateOldConfig_cleanup(fs, usr) : Take("migrateOldConfig", r, FALSE)
    /\ UNCHANGED <<ret, osPath>>

CreateXdgConfigDir ==
    /\ pc = "createXdgConfigDir"
    /\ \E r \in createXdgConfigDir(fs, usr) : Take("createXdgConfigDir", r, TRUE)
    /\ osPath' = xdgConfigDirOf(usr)
    /\ UNCHANGED ret

CreateWtfConfigDir ==
    /\ pc = "createWtfConfigDir"
    /\ \E r \in createWtfConfigDir(fs, usr) : Take("createWtfConfigDir", r, TRUE)
    /\ osPath' = wtfConfigDirOf(usr)
    /\ UNCHANGED ret

CreateWtfConfigFile ==
    /\ pc = "createWtfConfigFile"
    /\ \E r \in createWtfConfigFile(fs, usr) :
          /\ Take("createWtfConfigFile", r, TRUE)
          /\ ret' = [fileName |-> ConfigYml, path |-> r.path, err |-> r.err]
    /\ UNCHANGED osPath

CreateWtfConfigFileSeed ==
    /\ pc = "createWtfConfigFile_seed"
    /\ \E r \in createWtfConfigFile_seed(fs, ret.path) : Take("createWtfConfigFile", r, FALSE)
    /\ UNCHANGED <<ret, osPath>>

\* a direct call of the exported CreateFile
CallCreateFile ==
    /\ pc \in Ended
    /\ calls < MaxCalls
    /\ \E fileName \in FileNames : \E r \in CreateFile(fs, usr, fileName) :
          /\ fs' = r.fs
          /\ ret' = [fileName |-> fileName, path |-> r.path, err |-> r.err]
          /\ clean' = (clean /\ r.err # "EIO")
          /\ lastErr' = <<"CreateFile", r.err>>
    /\ pc' = "returned"
    /\ op' = "CreateFile"
    /\ calls' = calls + 1
    /\ steps' = <<>>
    /\ out' = {}
    /\ exitCode' = 0
    /\ fs0' = fs
    /\ pre' = fs
    /\ osPath' = NoPath
    /\ prev' = (op = "Initialize" /\ pc = "returned")
    /\ UNCHANGED <<usr, orig, crashes, stoppedInMigration, arg, resolved>>

\* the process is stopped from outside between two operations on the
\* filesystem made by the functions of this file
Crash ==
    /\ pc \in Running
    /\ pc' = "crashed"
    /\ crashes' = crashes + 1
    /\ stoppedInMigration' = (stoppedInMigration \/ pc = "migrateOldConfig_cleanup")
    /\ UNCHANGED <<fs, usr, op, calls, steps, out, exitCode, ret, fs0, orig, clean,
                   pre, lastErr, osPath, prev, arg, resolved>>

\* the process is stopped from outside while Copy or os.RemoveAll is at
\* work: what is left is what a failure of that operation may leave
CrashInMigration ==
    /\ pc \in {"migrateOldConfig", "migrateOldConfig_cleanup"}
    /\ \E r \in (IF pc = "migrateOldConfig" THEN migrateOldConfig(fs, usr)
                  ELSE migrateOldConfig_cleanup(fs, usr)) :
          /\ r.err = "EIO"
          /\ fs' = r.fs
    /\ pc' = "crashed"
    /\ crashes' = crashes + 1
    /\ stoppedInMigration' = TRUE
    /\ steps' = IF pc = "migrateOldConfig" THEN Append(steps, pc) ELSE steps
    /\ pre' = IF pc = "migrateOldConfig" THEN fs ELSE pre
    /\ UNCHANGED <<usr, op, calls, out, exitCode, ret, fs0, orig, clean, lastErr,
                   osPath, prev, arg, resolved>>

Next ==
    \/ StartInitialize
    \/ StartCreateWtfConfigFile
    \/ CallCreateFile
    \/ MigrateOldConfig
    \/ MigrateOldConfigCleanup
    \/ CreateXdgConfigDir
    \/ CreateWtfConfigDir
    \/ CreateWtfConfigFile
    \/ CreateWtfConfigFileSeed
    \/ Crash
    \/ CrashInMigration

Spec == Init /\ [][Next]_vars

(* ---------------- Initialize alone, run after run --------------------- *)

NextInitialize ==
    \/ StartInitialize
    \/ MigrateOldConfig
    \/ MigrateOldConfigCleanup
    \/ CreateXdgConfigDir
    \/ CreateWtfConfigDir
    \/ CreateWtfConfigFile
    \/ CreateWtfConfigFileSeed
    \/ Crash
    \/ CrashInMigration

SpecInitialize == Init /\ [][NextInitialize]_vars

\* the function a position of Initialize lies in
StepOf(p) ==
    IF p = "migrateOldConfig_cleanup" THEN "migrateOldConfig"
    ELSE IF p = "createWtfConfigFile_seed" THEN "createWtfConfigFile"
    ELSE p

StepOutcomes(p, f, u, filePath) ==
    CASE p = "migrateOldConfig" -> migrateOldConfig(f, u)
      [] p = "migrateOldConfig_cleanup" -> migrateOldConfig_cleanup(f, u)
      [] p = "createXdgConfigDir" -> createXdgConfigDir(f, u)
      [] p = "createWtfConfigDir" -> createWtfConfigDir(f, u)
      [] p = "createWtfConfigFile" -> createWtfConfigFile(f, u)
      [] p = "createWtfConfigFile_seed" -> createWtfConfigFile_seed(f, filePath)

\* Initialize run from position p to its end, not stopped and with no
\* failure from outside the model: how it ends and the filesystem it leaves
RECURSIVE Uninterrupted(_, _, _, _)
Uninterrupted(f, u, p, filePath) ==
    IF p \notin Running THEN [fs |-> f, pc |-> p]
    ELSE LET r == CHOOSE x \in StepOutcomes(p, f, u, filePath) : x.err # "EIO" IN
         Uninterrupted(r.fs, u, After("Initialize", StepOf(p), r.next),
                       IF p = "createWtfConfigFile" THEN r.path ELSE filePath)

Initialize(f, u) == Uninterrupted(f, u, "migrateOldConfig", <<>>)

(* ---------------------- expandHomeDir on its own ---------------------- *)

\* the characters of the paths: the marker, the two characters line 186
\* takes for a separator, and a letter
PathChars == {"~", "/", "\\", "a"}

PathStrings == UNION { [1..n -> PathChars] : n \in 0..MaxPathLen }

\* what user.Current() may give: no user, or a user whose HomeDir is
\* empty, plain, written with a trailing separator, or the root
ResolveUserStates ==
    { [ok |-> FALSE, HomeDir |-> <<>>] }
    \cup { [ok |-> TRUE, HomeDir |-> h] :
              h \in { <<>>, HomeDir, HomeDir \o <<"/">>, <<"/">> } }

InitResolve ==
    /\ arg \in PathStrings
    /\ usr \in ResolveUserStates
    /\ resolved = NotResolved
    /\ fs = [p \in Paths |-> Absent]
    /\ pc = "idle"
    /\ op = "none"
    /\ calls = 0
    /\ steps = <<>>
    /\ out = {}
    /\ exitCode = 0
    /\ ret = [fileName |-> <<>>, path |-> <<>>, err |-> "nil"]
    /\ fs0 = fs
    /\ orig = fs
    /\ clean = TRUE
    /\ crashes = 0
    /\ pre = fs
    /\ lastErr = <<"none", "nil">>
    /\ stoppedInMigration = FALSE
    /\ osPath = NoPath
    /\ prev = FALSE

ExpandHomeDir ==
    /\ resolved = NotResolved
    /\ resolved' = expandHomeDir(arg, usr)
    /\ UNCHANGED <<fs, usr, pc, op, calls, steps, out, exitCode, ret, fs0, orig, clean,
                   crashes, pre, lastErr, stoppedInMigration, osPath, prev, arg>>

NextResolve == ExpandHomeDir

SpecResolve == InitResolve /\ [][NextResolve]_vars

(* ================================ claims ============================== *)

InitializeOrder ==
    <<"migrateOldConfig", "createXdgConfigDir", "createWtfConfigDir", "createWtfConfigFile">>

\* the migrator of the current Initialize call has run and nothing after it
MigratorLast == op = "Initialize" /\ steps = <<"migrateOldConfig">>

LegacyTreeSame(f, g) == \A q \in Paths : Under(LegacyPath, q) => f[q] = g[q]

NonEmptyFile(n) == n.t = "file" /\ n.c # <<>>

\* C1: when something exists at the current directory's path as Initialize
\* starts, the migrator returns without an operation on the filesystem:
\* legacy and current trees are as they were.
C1_MigrationSkip ==
    (MigratorLast /\ Present(fs0, WtfPath))
        => /\ fs = fs0
           /\ lastErr = <<"none", "nil">>
           /\ pc \in {"createXdgConfigDir", "crashed"}

C1_Witness ==
    /\ MigratorLast /\ pc = "createXdgConfigDir"
    /\ fs0[WtfPath].t = "dir" /\ ~Present(fs0, ConfigFilePath)
    /\ fs0[LegacyPath].t = "dir" /\ Present(fs0, LegacyPath \o <<"/", "y">>)
    /\ fs = fs0

\* C2: with a resolvable home, a legacy directory and nothing at the current
\* directory's path, once the migrator has returned every entry of the legacy
\* tree is in the current tree at the same relative path with the same
\* content, and the legacy directory is gone unless its removal failed and
\* the failure was printed.
C2_MigrationProperty ==
    (/\ MigratorLast /\ pc = "createXdgConfigDir"
     /\ home(usr).err = "nil"
     /\ fs0[LegacyPath].t = "dir" /\ ~Present(fs0, WtfPath))
        => /\ \A q \in Tree(fs0, LegacyPath) : fs[Rebase(LegacyPath, WtfPath, q)] = fs0[q]
           /\ (Present(fs, LegacyPath) => "RemoveAllError" \in out)

C2_Witness ==
    /\ MigratorLast /\ pc = "createXdgConfigDir"
    /\ ~Present(fs0, XdgPath)
    /\ fs0[LegacyPath \o <<"/", "y">>] = File(UserContent)
    /\ Present(fs0, LegacyPath \o <<"/", "d", "/", "s">>)
    /\ fs[ConfigFilePath] = File(UserContent)
    /\ Present(fs, WtfPath \o <<"/", "d", "/", "s">>)
    /\ ~Present(fs, LegacyPath)

\* C3: once something exists at the current directory's path it stays there
\* unchanged, every migrator run from then on returns without touching the
\* filesystem, and a copy succeeds only from a state without it and leaves it
\* in place (so no second copy can succeed).
C3_MigrationAtMostOnce ==
    [][ /\ Present(fs, WtfPath) =>
            /\ fs'[WtfPath] = fs[WtfPath]
            /\ pc = "migrateOldConfig" =>
                   fs' = fs /\ pc' \in {"createXdgConfigDir", "crashed"}
        /\ (pc = "migrateOldConfig" /\ pc' = "migrateOldConfig_cleanup") =>
               ~Present(fs, WtfPath) /\ Present(fs', WtfPath) ]_vars

C3_Witness ==
    /\ calls = 2 /\ MigratorLast /\ pc = "createXdgConfigDir"
    /\ ~Present(orig, WtfPath) /\ orig[LegacyPath].t = "dir"
    /\ fs0[WtfPath].t = "dir" /\ ~Present(fs0, ConfigFilePath)
    /\ Present(fs0, LegacyPath \o <<"/", "y">>)
    /\ fs = fs0

\* C4: when the copy returns an error the process panics there: the legacy
\* tree is as it was, and no step after the migrator has run.
C4_CopyFailureFatal ==
    (lastErr[1] = "Copy" /\ lastErr[2] # "nil")
        => /\ pc = "panicked" /\ exitCode = 2
           /\ MigratorLast
           /\ LegacyTreeSame(fs, fs0)

C4_Witness ==
    /\ lastErr = <<"Copy", "EIO">> /\ pc = "panicked"
    /\ Present(fs, WtfPath) /\ Present(fs0, LegacyPath \o <<"/", "y">>)
    /\ ~Present(fs, ConfigFilePath)

\* C5: when the removal of the legacy tree fails, the error is printed, the
\* process goes on (the next step is the provisioning of the XDG directory)
\* and the legacy directory is still there.
C5_CleanupFailureNonFatal ==
    (lastErr[1] = "RemoveAll" /\ lastErr[2] # "nil")
        => /\ "RemoveAllError" \in out
           /\ exitCode = 0
           /\ pc \in {"createXdgConfigDir", "crashed"}
           /\ MigratorLast
           /\ Present(fs, LegacyPath)

\* a run that printed the failed removal and went through all four steps
C5_Witness ==
    /\ op = "Initialize" /\ pc = "returned"
    /\ "RemoveAllError" \in out
    /\ steps = InitializeOrder
    /\ Present(fs, LegacyPath)

\* C6: a config.yml that holds content when a call (Initialize, CreateFile,
\* createWtfConfigFile) starts is the same during and after the call.
C6_ConfigNeverRewritten ==
    NonEmptyFile(fs0[ConfigFilePath]) => fs[ConfigFilePath] = fs0[ConfigFilePath]

C6_Witness ==
    /\ pc = "returned" /\ op = "createWtfConfigFile"
    /\ fs0[ConfigFilePath] = File(UserContent)
    /\ fs[ConfigFilePath] = File(UserContent)
    /\ lastErr = <<"none", "nil">>

\* C7: when createWtfConfigFile returns and config.yml was missing or empty
\* as it began, the file holds the default blob; when it returns at all the
\* file is not empty; and a failure of CreateFile, of the size check or of the
\* write ends in a panic.
C7_Seeding ==
    /\ (pc = "returned" /\ op \in {"Initialize", "createWtfConfigFile"}) =>
          /\ NonEmptyFile(fs[ConfigFilePath])
          /\ (~Present(pre, ConfigFilePath) \/ pre[ConfigFilePath] = File(<<>>)) =>
                 fs[ConfigFilePath] = File(defaultConfigFile)
    /\ (op # "CreateFile" /\ lastErr[1] \in {"CreateFile", "Stat", "WriteFile"}
        /\ lastErr[2] # "nil") => (pc = "panicked" /\ exitCode = 2)

C7_Witness ==
    /\ pc = "returned" /\ op = "Initialize"
    /\ pre[WtfPath].t = "dir" /\ ~Present(pre, ConfigFilePath)
    /\ fs[ConfigFilePath] = File(defaultConfigFile)

\* C8: the steps of an Initialize call are entered in the order migrator,
\* XDG directory, app directory, config file, each at most once and each only
\* when the one before has returned; a call that exits or panics enters no
\* further step.
C8_StrictOrder ==
    op = "Initialize" =>
        /\ Len(steps) <= Len(InitializeOrder)
        /\ steps = SubSeq(InitializeOrder, 1, Len(steps))
        /\ pc \in Running =>
               IF pc = StepOf(pc) THEN Append(steps, pc) = SubSeq(InitializeOrder, 1, Len(steps) + 1)
               ELSE steps # <<>> /\ steps[Len(steps)] = StepOf(pc)
        /\ pc = "returned" => steps = InitializeOrder
        /\ pc = "exited" => exitCode = 1 /\ steps # <<>>
                            /\ steps[Len(steps)] \in {"createXdgConfigDir", "createWtfConfigDir"}
        /\ pc = "panicked" => exitCode = 2 /\ steps # <<>>
                              /\ steps[Len(steps)] \in {"migrateOldConfig", "createWtfConfigFile"}

C8_Witness ==
    /\ op = "Initialize" /\ pc = "returned" /\ steps = InitializeOrder
    /\ ~Present(fs0, XdgPath) /\ fs[ConfigFilePath] = File(defaultConfigFile)

\* the end of one Initialize run on the initial filesystem, with no stop
FromOrig == Initialize(orig, usr)

\* a call of Initialize has ended by itself
InitializeEnded == op = "Initialize" /\ pc \in {"returned", "exited", "panicked"}

\* C9 as stated: after stops between steps, a run of Initialize in which no
\* operation fails from outside ends as one uninterrupted run on the initial
\* filesystem would have ended, with the same filesystem.
C9_Original ==
    (InitializeEnded /\ clean /\ crashes > 0)
        => pc = FromOrig.pc /\ fs = FromOrig.fs

\* C9 amended: it ends the same way; with the same filesystem when no stop
\* fell inside the migration (between the start of the copy and the end of
\* the removal); after a stop inside the migration the XDG and the current
\* directory are still as the uninterrupted run leaves them, and the legacy
\* tree holds nothing but entries it held initially.
C9_CrashResumable ==
    (InitializeEnded /\ clean /\ crashes > 0)
        => /\ pc = FromOrig.pc
           /\ ~stoppedInMigration => fs = FromOrig.fs
           /\ fs[XdgPath] = FromOrig.fs[XdgPath]
           /\ fs[WtfPath] = FromOrig.fs[WtfPath]
           /\ \A q \in Paths : Under(LegacyPath, q) => fs[q] \in {orig[q], Absent}

\* stopped after config.yml was created empty, then run again to the end
C9_Witness ==
    /\ InitializeEnded /\ clean /\ crashes = 1 /\ pc = "returned"
    /\ ~stoppedInMigration
    /\ ~Present(orig, XdgPath)
    /\ fs0[ConfigFilePath] = File(<<>>)
    /\ fs = FromOrig.fs
    /\ fs[ConfigFilePath] = File(defaultConfigFile)

\* C10: when a directory is missing and its Mkdir fails, the matching error is
\* printed and the process exits with status 1 before the config file step;
\* the filesystem is as the step found it.
C10_MkdirFailureFailFast ==
    (lastErr[1] = "Mkdir" /\ lastErr[2] # "nil")
        => /\ pc = "exited" /\ exitCode = 1
           /\ fs = pre
           /\ steps \in { SubSeq(InitializeOrder, 1, 2), SubSeq(InitializeOrder, 1, 3) }
           /\ out = IF Len(steps) = 2 THEN {"XdgConfigDirCreateError"}
                    ELSE {"WtfConfigDirCreateError"}

C10_Witness ==
    /\ pc = "exited" /\ lastErr = <<"Mkdir", "EIO">>
    /\ steps = SubSeq(InitializeOrder, 1, 3)
    /\ fs[XdgPath].t = "dir" /\ ~Present(fs, WtfPath)

\* the step s is the last one entered by the current Initialize and has
\* returned: the process is at the step after it, or was stopped there
ReturnedFrom(s) ==
    /\ op = "Initialize"
    /\ steps # <<>>
    /\ steps[Len(steps)] = s
    /\ pc \in {InitializeNext(s), "crashed"}

\* C11: once createXdgConfigDir or createWtfConfigDir has returned, a second
\* call of the same function made at once has a single outcome: it returns
\* without an error, without ending the process, without printing, and
\* leaves the filesystem as the first call left it.
C11_DirEnsureIdempotent ==
    /\ ReturnedFrom("createXdgConfigDir") => createXdgConfigDir(fs, usr) = { Done(fs) }
    /\ ReturnedFrom("createWtfConfigDir") => createWtfConfigDir(fs, usr) = { Done(fs) }

\* the first call made the directory, and the process is just behind it
C11_Witness ==
    /\ ReturnedFrom("createXdgConfigDir")
    /\ pc = "createWtfConfigDir"
    /\ lastErr = <<"Mkdir", "nil">>
    /\ ~Present(pre, XdgPath)
    /\ IsDirAt(fs, XdgPath)

\* the constant whose resolution gave osPath
GivenPath ==
    IF \E i \in 1..Len(steps) : steps[i] = "createWtfConfigDir"
    THEN WtfConfigDirV2 ELSE XdgConfigDir

\* a directory step of the current call has run, and the resolution of its
\* path had failed
ResolutionFailed == osPath # NoPath /\ expandHomeDir(GivenPath, usr).err # "nil"

\* C12: after a failed resolution the existence check and the creation are
\* made on the path as given, the unresolved constant.
C12_DirEnsureOnPathAsGiven == ResolutionFailed => osPath = GivenPath

\* what the code does instead: the error is dropped and the existence check
\* and the creation are made on the empty path the resolver returned with
\* it; nothing is found there, os.Mkdir fails, the creation error is printed
\* and the process exits with status 1, the filesystem unchanged
ResolutionFailureExits ==
    ResolutionFailed =>
        /\ osPath = <<>>
        /\ GivenPath = XdgConfigDir
        /\ pc = "exited"
        /\ exitCode = 1
        /\ out = {"XdgConfigDirCreateError"}
        /\ lastErr[1] = "Mkdir" /\ lastErr[2] # "nil"
        /\ fs = pre

\* C13: CreateFile(fileName) returns an error, no path, and leaves the
\* filesystem as it was when the configuration directory cannot be resolved,
\* when os.Stat of configDir/fileName fails with something other than
\* not-exist, or when the file is absent and creating it fails; otherwise
\* it returns configDir/fileName without an error and the file is there:
\* empty and the only change if it was absent, and nothing changed if it
\* was there already.
C13_CreateFileContract ==
    lastErr[1] = "CreateFile" =>
        LET configDir == WtfConfigDir(usr)
            filePath == configDir.path \o <<"/">> \o ret.fileName
            st == Stat(pre, filePath)
        IN /\ ret.err = lastErr[2]
           /\ (configDir.err # "nil" \/ st.err \notin {"nil", "ENOENT"}) => ret.err # "nil"
           /\ ret.err # "nil" =>
                 /\ ret.path = <<>>
                 /\ fs = pre
                 /\ configDir.err # "nil" \/ st.err # "nil"
           /\ ret.err = "nil" =>
                 /\ ret.path = filePath
                 /\ Present(fs, filePath)
                 /\ st.err = "nil" => fs = pre
                 /\ st.err = "ENOENT" => fs = [pre EXCEPT ![filePath] = File(<<>>)]

\* a direct call made the file, and another file of the directory kept
\* its content
C13_Witness ==
    /\ op = "CreateFile"
    /\ lastErr = <<"CreateFile", "nil">>
    /\ ret.fileName = <<"s">>
    /\ ~Present(pre, ret.path)
    /\ fs[ret.path] = File(<<>>)
    /\ fs[ConfigFilePath] = File(UserContent)

\* expandHomeDir has been called with arg
Resolved == resolved # NotResolved

\* the characters line 186 accepts behind the marker
Separators == {"/", "\\"}

\* C14: for every path that begins with "~" and whose second character is
\* not a separator, expandHomeDir fails with MalformedPath and returns the
\* empty path, whatever the home directory is.
C14_MalformedRejected ==
    (Resolved /\ Len(arg) >= 2 /\ arg[1] = "~" /\ arg[2] \notin Separators)
        => resolved = [path |-> <<>>, err |-> "MalformedPath"]

C14_Witness ==
    /\ Resolved
    /\ arg = <<"~", "a", "/">>
    /\ home(usr).err = "nil"
    /\ resolved.err = "MalformedPath"

\* the elements of a path: what lies between its "/"
RECURSIVE Components(_)
Components(p) ==
    IF p = <<>> THEN <<>>
    ELSE IF p[1] = "/" THEN Components(Tail(p))
    ELSE LET stops == { i \in 1..Len(p) : p[i] = "/" }
             n == IF stops = {} THEN Len(p) + 1
                  ELSE CHOOSE i \in stops : \A j \in stops : i <= j
         IN <<SubSeq(p, 1, n - 1)>> \o Components(SubSeq(p, n, Len(p)))

\* no "/" is repeated and none ends the path, the root apart
NoSpareSeparator(p) ==
    /\ p # <<>>
    /\ \A i \in 1..(Len(p) - 1) : ~(p[i] = "/" /\ p[i + 1] = "/")
    /\ Len(p) > 1 => p[Len(p)] # "/"

\* arg is the marker alone, or the marker and a separator behind it
HomeRelative == Len(arg) >= 1 /\ arg[1] = "~" /\ (Len(arg) = 1 \/ arg[2] \in Separators)

ValidHome == usr.ok /\ usr.HomeDir # <<>>

\* C15 as stated: with a valid home directory a home-relative path resolves
\* to the home directory with the rest of the path written behind it, and
\* "~" to exactly the home directory; without one it fails with
\* HomeDirUnavailable.
C15_Original ==
    (Resolved /\ HomeRelative) =>
        IF ValidHome
        THEN resolved = [path |-> usr.HomeDir \o Tail(arg), err |-> "nil"]
        ELSE resolved = [path |-> <<>>, err |-> "HomeDirUnavailable"]

\* C15: with a valid home directory a home-relative path resolves to the
\* home directory joined with the rest of the path: the elements of the
\* home directory, then those of the rest, absolute exactly if the home
\* directory is, no "/" repeated and none at the end; that is the home
\* directory with the rest written behind it whenever the marker is
\* followed by "/" (or by nothing) and writing them so repeats no "/" and
\* ends with none.  Without a valid home directory it fails with
\* HomeDirUnavailable.
C15_HomeJoined ==
    (Resolved /\ HomeRelative) =>
        IF ValidHome
        THEN LET h == usr.HomeDir
                 rest == Tail(arg)
                 r == resolved.path
             IN /\ resolved.err = "nil"
                /\ Components(r) = Components(h) \o Components(rest)
                /\ NoSpareSeparator(r)
                /\ (r[1] = "/") = (h[1] = "/")
                /\ ((rest = <<>> \/ rest[1] = "/") /\ NoSpareSeparator(h \o rest))
                      => r = h \o rest
        ELSE resolved = [path |-> <<>>, err |-> "HomeDirUnavailable"]

\* "~/" with the plain home directory: the result is the home directory,
\* the separator after the marker is gone
C15_Witness ==
    /\ Resolved
    /\ arg = <<"~", "/">>
    /\ usr.HomeDir = HomeDir
    /\ resolved = [path |-> HomeDir, err |-> "nil"]

\* the step last entered by the current Initialize is one of the two that
\* ensure a directory, and something was at its path when it began
FoundAtDirPath ==
    /\ op = "Initialize"
    /\ steps # <<>>
    /\ steps[Len(steps)] \in {"createXdgConfigDir", "createWtfConfigDir"}
    /\ osPath \in Paths
    /\ Present(pre, osPath)

\* C16: when something, a directory or a regular file, is at the path of
\* createXdgConfigDir or createWtfConfigDir, the function changes nothing
\* on the filesystem, calls nothing that could fail, prints no creation
\* error and returns: the process goes on with the next step.
C16_NoTypeCheck ==
    FoundAtDirPath =>
        /\ fs = pre
        /\ lastErr = <<"none", "nil">>
        /\ out \cap {"XdgConfigDirCreateError", "WtfConfigDirCreateError"} = {}
        /\ exitCode = 0
        /\ pc \in {InitializeNext(steps[Len(steps)]), "crashed"}

\* a regular file is where ~/.config should be, and Initialize went past it
C16_Witness ==
    /\ FoundAtDirPath
    /\ osPath = XdgPath
    /\ pre[XdgPath].t = "file"
    /\ pc = "createWtfConfigDir"

\* the regular files under the legacy directory in the initial state
LegacyFiles == { q \in Paths : Under(LegacyPath, q) /\ orig[q].t = "file" }

\* the file is where it was, or at its place under the current directory,
\* with the content it had initially
Kept(q) ==
    \/ fs[q] = orig[q]
    \/ fs[Rebase(LegacyPath, WtfPath, q)] = orig[q]

\* something under the legacy directory changes in this step
LegacyTouched == \E q \in Paths : Under(LegacyPath, q) /\ fs'[q] # fs[q]

\* the copy has returned without an error and the current directory is
\* found: the process stands before the removal of line 236
CopiedAndFound == pc = "migrateOldConfig_cleanup" /\ Stat(fs, WtfPath).err = "nil"

\* C17 as stated: every file initially under the legacy directory is kept,
\* there or under the current directory, with its initial content, and the
\* legacy tree is touched only after a successful copy, the current
\* directory found.
C17_Original ==
    /\ [](\A q \in LegacyFiles : Kept(q))
    /\ [][LegacyTouched => CopiedAndFound]_vars

\* C17: every file initially under the legacy directory is kept, there or
\* under the current directory, with its initial content, except a legacy
\* config.yml of length zero, which once migrated may have been filled with
\* the default configuration; and the legacy tree is touched only after a
\* successful copy, the current directory found.
C17_NoLegacyDataLost ==
    /\ [](\A q \in LegacyFiles :
             \/ Kept(q)
             \/ /\ q = LegacyPath \o <<"/">> \o ConfigYml
                /\ orig[q] = File(<<>>)
                /\ fs[ConfigFilePath] = File(defaultConfigFile))
    /\ [][LegacyTouched => CopiedAndFound]_vars

\* the legacy tree is gone and its config.yml is in the current directory
C17_Witness ==
    /\ op = "Initialize" /\ pc = "returned"
    /\ orig[LegacyPath \o <<"/">> \o ConfigYml] = File(UserContent)
    /\ ~Present(orig, WtfPath)
    /\ ~Present(fs, LegacyPath)
    /\ fs[ConfigFilePath] = File(UserContent)

\* C18: whenever Initialize has returned, ~/.config is a directory,
\* ~/.config/wtf is a directory, and config.yml in it is a file of
\* non-zero length.
C18_InitializePostcondition ==
    (op = "Initialize" /\ pc = "returned")
        => /\ IsDirAt(fs, XdgPath)
           /\ IsDirAt(fs, WtfPath)
           /\ NonEmptyFile(fs[ConfigFilePath])

\* returned after having made both directories and the file
C18_Witness ==
    /\ op = "Initialize" /\ pc = "returned"
    /\ ~Present(fs0, XdgPath)
    /\ ~Present(fs0, LegacyPath)
    /\ IsDirAt(fs, WtfPath)
    /\ fs[ConfigFilePath] = File(defaultConfigFile)

\* the current call is an Initialize that follows at once an Initialize
\* that returned
SecondInitialize == op = "Initialize" /\ prev

\* C19: an Initialize that follows an Initialize that returned finds
\* nothing to do: no step changes the filesystem, none copies, removes,
\* makes a directory or writes, nothing is printed, and the call does not
\* end in os.Exit or a panic; it returns, the filesystem as it found it.
C19_InitializeIdempotent ==
    SecondInitialize =>
        /\ fs = fs0
        /\ out = {}
        /\ lastErr \in {<<"none", "nil">>, <<"CreateFile", "nil">>}
        /\ pc \in (Running \ {"migrateOldConfig_cleanup"}) \cup {"returned", "crashed"}
        /\ exitCode = 0

\* the first run migrated and could not remove the legacy tree; the second
\* has returned with the stale legacy tree still there
C19_Witness ==
    /\ SecondInitialize /\ pc = "returned"
    /\ calls = 2 /\ crashes = 0
    /\ ~Present(orig, WtfPath)
    /\ LegacyTreeSame(fs, orig) /\ Present(fs, LegacyPath)
    /\ fs[ConfigFilePath] = File(defaultConfigFile)

====
